---------------------------- MODULE Spec2Model ----------------------------
(***************************************************************************)
(* Model of baiydaavi/toy_repo:                                            *)
(*   src/three_state.py  ThreeStateCA (three-state cellular automaton)     *)
(*   src/bayesian.py     metropolis_hastings (MCMC chain)                  *)
(*                                                                         *)
(* Python lists are objects: the model keeps a heap of list objects and    *)
(* the engine's fields hold references (indices into the heap), so that    *)
(* sharing a list with the caller is visible.  Strings are sequences of    *)
(* one-character strings.  A call that raises is recorded in `last`.       *)
(***************************************************************************)
EXTENDS Integers, Sequences, FiniteSets, TLC

\* ------------------------------------------------------------------ bounds

\* longest initial condition the caller passes
MaxLen == 3
\* most evolution steps requested from one engine, summed over its calls
MaxSteps == 3
\* most iterations of one Metropolis-Hastings chain
MaxIter == 3
\* most mutations the caller makes to the list it passed to the engine
MaxMutations == 1

VARIABLES
    \* ---- ThreeStateCA instance and its caller
    engine,                 \* "none" before __init__ returned, then "constructed"
    heap,                   \* heap[ref] = contents of list object ref
    initial,                \* self.initial (reference)
    spacetime,              \* self.spacetime: list of references
    current_configuration,  \* self.current_configuration (reference)
    _length,                \* self._length
    _rulen,                 \* self._rulen
    caller_list,            \* the reference the caller holds to its own list
    mutations,              \* number of caller mutations made so far
    last,                   \* the last call on the engine: [op, arg, raised]
    requested,              \* sum of the integer time_steps >= 0 requested
    steps_done,             \* evolution steps completed so far
    clean,                  \* every evolve call so far had an integer argument
    before,                 \* history and current configuration, by value, as
                            \* the last call on the engine found them
    \* ---- one call of lookup_table on its own
    lt_rule,                \* the rule number looked up
    lt_result,              \* [raised, value] once the call returned
    \* ---- metropolis_hastings
    mh_pc,                  \* "start" | "loop" | "done"
    iterations,             \* argument
    initial_a,              \* argument
    a_old,                  \* local a_old
    a_new,                  \* local a_new of the last iteration
    e_est                   \* local e_est, the returned list

vars == <<engine, heap, initial, spacetime, current_configuration, _length,
          _rulen, caller_list, mutations, last, requested, steps_done,
          clean, before, lt_rule, lt_result, mh_pc, iterations, initial_a, a_old, a_new,
          e_est>>

ca_vars == <<engine, heap, initial, spacetime, current_configuration, _length,
             _rulen, caller_list, mutations, last, requested, steps_done,
             clean, before>>
lt_vars == <<lt_rule, lt_result>>
mh_vars == <<mh_pc, iterations, initial_a, a_old, a_new, e_est>>

\* ------------------------------------------------------- python primitives

RECURSIVE reversed(_)
\* reversed(seq)
reversed(s) ==
    IF s = <<>> THEN <<>> ELSE Append(reversed(Tail(s)), Head(s))

\* list[i] with Python's index rule: a negative index counts from the end
PyIndex(list, i) ==
    IF i < 0 THEN list[i + Len(list) + 1] ELSE list[i + 1]

\* int(c) for a one-character digit string
IntOfChar(c) ==
    CASE c = "0" -> 0
      [] c = "1" -> 1
      [] c = "2" -> 2

\* int(x) of a number given in halves (h stands for h/2): truncation to zero
IntOfHalves(h) ==
    IF h >= 0 THEN h \div 2 ELSE -((-h) \div 2)

\* the digits string of numpy.base_repr
BaseDigits == <<"0", "1", "2">>

RECURSIVE DigitsLSB(_, _)
\* the while-loop of numpy.base_repr: digits of num, least significant first
DigitsLSB(num, base) ==
    IF num = 0 THEN <<>>
    ELSE <<BaseDigits[(num % base) + 1]>> \o DigitsLSB(num \div base, base)

RECURSIVE Zeros(_)
\* '0' * padding (empty when padding <= 0)
Zeros(padding) ==
    IF padding <= 0 THEN <<>> ELSE <<"0">> \o Zeros(padding - 1)

\* numpy.base_repr(number, base, padding):
\*   res = digits of abs(number), least significant first
\*   if padding: res.append('0' * padding)
\*   if number < 0: res.append('-')
\*   return ''.join(reversed(res or '0'))
\* The lone '0' stands in only when res is empty, so 0 with padding p gives
\* p zeros, not p + 1.
base_repr(number, base, padding) ==
    LET num == IF number < 0 THEN -number ELSE number
        res0 == DigitsLSB(num, base)
        res1 == IF padding # 0 THEN res0 \o Zeros(padding) ELSE res0
        res2 == IF number < 0 THEN Append(res1, "-") ELSE res1
    IN  reversed(IF res2 = <<>> THEN <<"0">> ELSE res2)

\* ------------------------------------------------------------ lookup_table

\* 3 ** 9 - 1, the largest rule number lookup_table accepts
RuleMax == 3^9 - 1

\* the list neighborhoods of lookup_table
neighborhoods ==
    << <<0, 0>>, <<0, 1>>, <<0, 2>>,
       <<1, 0>>, <<1, 1>>, <<1, 2>>,
       <<2, 0>>, <<2, 1>>, <<2, 2>> >>

\* dict(zip(keys, values)): zip stops at the shorter argument
DictZip(keys, values) ==
    LET n == IF Len(keys) < Len(values) THEN Len(keys) ELSE Len(values)
    IN  [k \in {keys[i] : i \in 1..n} |->
            LET i == CHOOSE j \in 1..n :
                        keys[j] = k /\ \A m \in (j + 1)..n : keys[m] # k
            IN  values[i]]

\* rule_ternary of lookup_table
rule_ternary(rulen) ==
    base_repr(rulen, 3, 9 - Len(base_repr(rulen, 3, 0)))

\* the body of lookup_table after the range check
lookup_table_ok(rulen) ==
    LET rev == reversed(rule_ternary(rulen))
        outs == [i \in 1..Len(rev) |-> IntOfChar(rev[i])]
    IN  [raised |-> "none", value |-> DictZip(neighborhoods, outs)]

\* ThreeStateCA.lookup_table(self) with self._rulen = rulen
lookup_table(rulen) ==
    IF rulen < 0 \/ rulen > RuleMax
    THEN [raised |-> "ValueError", value |-> <<>>]
    ELSE lookup_table_ok(rulen)

\* ------------------------------------------- lookup_table called on its own

\* the rule numbers tried: the whole valid range and one past each end
LTRules == (-1)..(RuleMax + 1)

LTIdle ==
    /\ lt_rule = 0
    /\ lt_result = [raised |-> "pending", value |-> <<>>]

LTInit ==
    /\ lt_rule \in LTRules
    /\ lt_result = [raised |-> "pending", value |-> <<>>]

\* one call of lookup_table()
LookupTableCall ==
    /\ lt_result.raised = "pending"
    /\ lt_result' = lookup_table(lt_rule)
    /\ UNCHANGED lt_rule


\* ------------------------------------------------------------ ThreeStateCA

\* the object state of a ThreeStateCA instance together with the heap
Self ==
    [heap |-> heap, initial |-> initial, spacetime |-> spacetime,
     current_configuration |-> current_configuration,
     _length |-> _length, _rulen |-> _rulen]

\* no instance yet
NoSelf ==
    [heap |-> <<>>, initial |-> 0, spacetime |-> <<>>,
     current_configuration |-> 0, _length |-> 0, _rulen |-> 0]

\* ThreeStateCA(rule_number, initial_condition): __init__.  The caller's
\* list becomes object 1; initial_condition.copy() allocates object 2.
ThreeStateCA(rule_number, initial_condition) ==
    IF \E k \in 1..Len(initial_condition) : initial_condition[k] \notin {0, 1, 2}
    THEN [raised |-> "ValueError", self |-> NoSelf]
    ELSE [raised |-> "none",
          self |-> [heap |-> <<initial_condition, initial_condition>>,
                    initial |-> 1,
                    spacetime |-> <<1>>,
                    current_configuration |-> 2,
                    _length |-> Len(initial_condition),
                    _rulen |-> rule_number]]

RECURSIVE cells_inplace(_, _, _, _, _)
\* cells, were each new value written back into the configuration being read
cells_inplace(cfg, rulen, i, length, acc) ==
    IF i = length THEN [raised |-> "none", value |-> acc]
    ELSE LET neighborhood == <<PyIndex(cfg, i - 1), PyIndex(cfg, i)>>
             t == lookup_table(rulen)
         IN  IF t.raised # "none" THEN [raised |-> t.raised, value |-> acc]
             ELSE IF neighborhood \notin DOMAIN t.value
             THEN [raised |-> "KeyError", value |-> acc]
             ELSE cells_inplace([cfg EXCEPT ![i + 1] = t.value[neighborhood]],
                                rulen, i + 1, length,
                                Append(acc, t.value[neighborhood]))

RECURSIVE cells(_, _, _, _, _)
\* the inner loop of evolve from index i on: new_configuration grows in acc;
\* lookup_table() is called for every cell and may raise, and the dict lookup
\* raises KeyError for a neighborhood that is no key
cells(cfg, rulen, i, length, acc) ==
    IF i = length THEN [raised |-> "none", value |-> acc]
    ELSE LET neighborhood == <<PyIndex(cfg, i - 1), PyIndex(cfg, i)>>
             t == lookup_table(rulen)
         IN  IF t.raised # "none" THEN [raised |-> t.raised, value |-> acc]
             ELSE IF neighborhood \notin DOMAIN t.value
             THEN [raised |-> "KeyError", value |-> acc]
             ELSE cells(cfg, rulen, i + 1, length,
                        Append(acc, t.value[neighborhood]))

RECURSIVE evolve_loop_append_first(_, _, _)
\* evolve_loop, were new_configuration appended to spacetime before it is filled
evolve_loop_append_first(self, n, done) ==
    IF n = 0 THEN [self |-> self, raised |-> "none", steps |-> done]
    ELSE LET r == cells(self.heap[self.current_configuration], self._rulen,
                        0, self._length, <<>>)
             ref == Len(self.heap) + 1
             next == [self EXCEPT !.heap = Append(@, r.value),
                                  !.spacetime = Append(@, ref)]
         IN  IF r.raised # "none"
             THEN [self |-> next, raised |-> r.raised, steps |-> done]
             ELSE evolve_loop_append_first(
                      [next EXCEPT !.current_configuration = ref], n - 1, done + 1)

RECURSIVE evolve_loop(_, _, _)
\* the outer loop of evolve with n steps to go and done steps completed:
\* a new list object is filled, then bound to current_configuration and
\* appended to spacetime; an exception leaves the instance as the completed
\* steps left it
evolve_loop(self, n, done) ==
    IF n = 0 THEN [self |-> self, raised |-> "none", steps |-> done]
    ELSE LET r == cells(self.heap[self.current_configuration], self._rulen,
                        0, self._length, <<>>)
             ref == Len(self.heap) + 1
         IN  IF r.raised # "none"
             THEN [self |-> self, raised |-> r.raised, steps |-> done]
             ELSE evolve_loop(
                      [self EXCEPT !.heap = Append(@, r.value),
                                   !.current_configuration = ref,
                                   !.spacetime = Append(@, ref)],
                      n - 1, done + 1)

\* evolve, were every call to start again from self.initial
evolve_from_initial(self, time_steps) ==
    IF time_steps < 0
    THEN [self |-> self, raised |-> "ValueError", steps |-> 0]
    ELSE evolve_loop([self EXCEPT !.current_configuration = self.initial],
                     IntOfHalves(time_steps), 0)

\* ThreeStateCA.evolve(self, time_steps), time_steps given in halves:
\* a negative value raises; int(time_steps) truncates and never raises for a
\* number, so the except clause is not reached
evolve(self, time_steps) ==
    IF time_steps < 0
    THEN [self |-> self, raised |-> "ValueError", steps |-> 0]
    ELSE evolve_loop(self, IntOfHalves(time_steps), 0)

\* ------------------------------------------------ the engine and its caller

\* the configuration held by list object ref
Config(ref) == heap[ref]

\* the spacetime history by value
History == [t \in 1..Len(spacetime) |-> heap[spacetime[t]]]

\* cell values a caller may put into a list: the three states and a stray 5
CellInputs == {0, 1, 2, 5}

\* the lists a caller passes as initial_condition
Conditions == UNION {[1..n -> CellInputs] : n \in 0..MaxLen}

\* rule numbers a caller passes: one past each end of the range, both ends,
\* and rules in between (15897 copies the cell, 19305 copies its left neighbour)
RuleInputs == {-1, 0, 1, 12345, 15897, 19305, RuleMax, RuleMax + 1}

\* time_steps a caller passes, in halves: -1, -0.5, 0, 0.5, 1, ...
TimeStepInputs == (-2)..(2 * MaxSteps + 1)

CAIdle ==
    /\ engine = "none"
    /\ heap = <<>>
    /\ initial = 0
    /\ spacetime = <<>>
    /\ current_configuration = 0
    /\ _length = 0
    /\ _rulen = 0
    /\ caller_list = 0
    /\ mutations = 0
    /\ last = [op |-> "none", arg |-> 0, raised |-> "none"]
    /\ requested = 0
    /\ steps_done = 0
    /\ clean = TRUE
    /\ before = [spacetime |-> <<>>, current_configuration |-> <<>>]

\* the caller builds a list and calls ThreeStateCA(rule_number, list)
Construct(rule_number, initial_condition) ==
    /\ engine = "none"
    /\ \E r \in {ThreeStateCA(rule_number, initial_condition)} :
           /\ last' = [op |-> "construct", arg |-> rule_number, raised |-> r.raised]
           /\ IF r.raised # "none"
              THEN UNCHANGED <<engine, heap, initial, spacetime,
                               current_configuration, _length, _rulen,
                               caller_list>>
              ELSE /\ engine' = "constructed"
                   /\ heap' = r.self.heap
                   /\ initial' = r.self.initial
                   /\ spacetime' = r.self.spacetime
                   /\ current_configuration' = r.self.current_configuration
                   /\ _length' = r.self._length
                   /\ _rulen' = r.self._rulen
                   /\ caller_list' = 1
    /\ before' = [spacetime |-> <<>>, current_configuration |-> <<>>]
    /\ UNCHANGED <<mutations, requested, steps_done, clean>>

\* the caller calls evolve(time_steps)
Evolve(time_steps) ==
    /\ engine = "constructed"
    /\ \E n \in {IF time_steps < 0 THEN 0 ELSE IntOfHalves(time_steps)} :
           /\ requested + n <= MaxSteps
           /\ Len(spacetime) - 1 + n <= MaxSteps
           /\ requested' = IF time_steps >= 0 /\ time_steps % 2 = 0
                           THEN requested + n ELSE requested
    /\ \E r \in {evolve(Self, time_steps)} :
           /\ last' = [op |-> "evolve", arg |-> time_steps, raised |-> r.raised]
           /\ heap' = r.self.heap
           /\ initial' = r.self.initial
           /\ spacetime' = r.self.spacetime
           /\ current_configuration' = r.self.current_configuration
           /\ _length' = r.self._length
           /\ _rulen' = r.self._rulen
           /\ steps_done' = steps_done + r.steps
    /\ clean' = (clean /\ (time_steps < 0 \/ time_steps % 2 = 0))
    /\ before' = [spacetime |-> History,
                  current_configuration |-> Config(current_configuration)]
    /\ UNCHANGED <<engine, caller_list, mutations>>

\* the caller assigns its_list[k - 1] = v
CallerSetItem(k, v) ==
    /\ engine = "constructed"
    /\ mutations < MaxMutations
    /\ k \in 1..Len(heap[caller_list])
    /\ heap[caller_list][k] # v
    /\ heap' = [heap EXCEPT ![caller_list][k] = v]
    /\ mutations' = mutations + 1
    /\ UNCHANGED <<engine, initial, spacetime, current_configuration, _length,
                   _rulen, caller_list, last, requested, steps_done, clean,
                   before>>

\* the caller calls its_list.append(v)
CallerAppend(v) ==
    /\ engine = "constructed"
    /\ mutations < MaxMutations
    /\ heap' = [heap EXCEPT ![caller_list] = Append(@, v)]
    /\ mutations' = mutations + 1
    /\ UNCHANGED <<engine, initial, spacetime, current_configuration, _length,
                   _rulen, caller_list, last, requested, steps_done, clean,
                   before>>

\* ------------------------------------------------------ metropolis_hastings

\* the test of the first branch, were it written a_new < 1
rejected_strict(candidate) == candidate < 1

\* the test `a_new <= 1` of the first branch: the candidate is not accepted
rejected(candidate) == candidate <= 1

\* post_a_x(a_new, ...) / post_a_x(a_old, ...) >= 1 for posterior values
\* p_new and p_old: x/0 is inf for x > 0 and nan for x = 0, and a comparison
\* with nan is false
ratio_ge_1(p_new, p_old) ==
    IF p_old = 0 THEN p_new > 0 ELSE p_new >= p_old

\* np.random.uniform(0, 1) < post_a_x(a_new, ...) / post_a_x(a_old, ...),
\* the uniform draw u given in halves
uniform_lt_ratio(u, p_new, p_old) ==
    IF p_old = 0 THEN p_new > 0 ELSE u * p_old < 2 * p_new

\* one pass of the loop body: the value of a_old after the if/elif chain
accept(current, candidate, p_new, p_old, u) ==
    IF rejected(candidate) THEN current
    ELSE IF ratio_ge_1(p_new, p_old) THEN candidate
    ELSE IF uniform_lt_ratio(u, p_new, p_old) THEN candidate
    ELSE current

\* values of np.random.randn() tried
Draws == (-2)..2

\* values of post_a_x tried (the data decide them)
PostInputs == 0..2

\* values of np.random.uniform(0, 1) tried, in halves: 0 and 0.5
UniformInputs == {0, 1}

\* values of initial_a tried; the chain's precondition is initial_a > 1
InitialInputs == 0..3

MHIdle ==
    /\ mh_pc = "idle"
    /\ iterations = 0
    /\ initial_a = 0
    /\ a_old = 0
    /\ a_new = 0
    /\ e_est = <<>>

\* metropolis_hastings(iterations, initial_a, data) up to the loop
MHInit ==
    /\ mh_pc = "loop"
    /\ iterations \in 0..MaxIter
    /\ initial_a \in InitialInputs
    /\ a_old = initial_a
    /\ a_new = 0
    /\ e_est = <<>>

\* one iteration of the loop
MHIteration(draw, p_new, p_old, u) ==
    /\ mh_pc = "loop"
    /\ Len(e_est) < iterations
    /\ a_new' = draw + a_old
    /\ a_old' = accept(a_old, a_new', p_new, p_old, u)
    /\ e_est' = Append(e_est, a_old')
    /\ UNCHANGED <<mh_pc, iterations, initial_a>>

\* return e_est
MHReturn ==
    /\ mh_pc = "loop"
    /\ Len(e_est) = iterations
    /\ mh_pc' = "done"
    /\ UNCHANGED <<iterations, initial_a, a_old, a_new, e_est>>

\* ---------------------------------------------------------- specifications

Init == CAIdle /\ LTIdle /\ MHIdle

\* the engine with a caller that also mutates the list it passed in
Next ==
    \/ \E r \in RuleInputs, c \in Conditions :
          Construct(r, c) /\ UNCHANGED <<lt_vars, mh_vars>>
    \/ \E t \in TimeStepInputs :
          Evolve(t) /\ UNCHANGED <<lt_vars, mh_vars>>
    \/ \E k \in 1..(MaxLen + MaxMutations), v \in {0, 1, 2} :
          CallerSetItem(k, v) /\ UNCHANGED <<lt_vars, mh_vars>>
    \/ \E v \in {0, 1, 2} :
          CallerAppend(v) /\ UNCHANGED <<lt_vars, mh_vars>>

Spec == Init /\ [][Next]_vars

\* the engine driven through its own operations only
NextEngine ==
    \/ \E r \in RuleInputs, c \in Conditions :
          Construct(r, c) /\ UNCHANGED <<lt_vars, mh_vars>>
    \/ \E t \in TimeStepInputs :
          Evolve(t) /\ UNCHANGED <<lt_vars, mh_vars>>

SpecEngine == Init /\ [][NextEngine]_vars

InitTable == CAIdle /\ LTInit /\ MHIdle

NextTable == LookupTableCall /\ UNCHANGED <<ca_vars, mh_vars>>

SpecTable == InitTable /\ [][NextTable]_vars

InitMH == CAIdle /\ LTIdle /\ MHInit

NextMH ==
    \/ \E d \in Draws, pn \in PostInputs, po \in PostInputs, u \in UniformInputs :
          MHIteration(d, pn, po, u) /\ UNCHANGED <<ca_vars, lt_vars>>
    \/ MHReturn /\ UNCHANGED <<ca_vars, lt_vars>>

SpecMH == InitMH /\ [][NextMH]_vars

\* ------------------------------------------------------------------ claims

\* the nine neighborhoods over {0, 1, 2}
AllPairs == {<<l, s>> : l \in 0..2, s \in 0..2}

\* a rule number inside [0, 3^9 - 1]
ValidRule(r) == r >= 0 /\ r <= RuleMax

\* C1: constructing the engine with a rule number outside [0, 3^9 - 1] fails
\* with ValueError at construction time, so no constructed engine ever holds
\* an out-of-range rule number.
C1_RuleCheckedAtConstruction ==
    /\ (last.op = "construct" /\ ~ValidRule(last.arg))
           => last.raised = "ValueError"
    /\ engine = "constructed" => ValidRule(_rulen)

\* C2: a mutation by the caller of the list it passed to the constructor
\* changes neither the engine's current configuration nor any entry of the
\* spacetime history (shown on engines whose rule number is in range).
C2_CallerMutationInvisible ==
    [][(engine = "constructed" /\ ValidRule(_rulen) /\ mutations' # mutations)
          => /\ heap'[current_configuration'] = heap[current_configuration]
             /\ Len(spacetime') = Len(spacetime)
             /\ \A t \in 1..Len(spacetime) :
                    heap'[spacetime'[t]] = heap[spacetime[t]]]_vars

\* C3: for every rule number in [0, 3^9 - 1], 0 included, lookup_table returns
\* a table of exactly 9 entries, one per (left, self) pair over {0, 1, 2},
\* with every output in {0, 1, 2}.
C3_TableComplete ==
    (lt_result.raised # "pending" /\ ValidRule(lt_rule))
        => /\ lt_result.raised = "none"
           /\ DOMAIN lt_result.value = AllPairs
           /\ Cardinality(DOMAIN lt_result.value) = 9
           /\ \A nb \in DOMAIN lt_result.value : lt_result.value[nb] \in 0..2

\* C4: under rule number 0, evolving any valid configuration by one step
\* succeeds and yields an all-zero configuration of the same length.
C4_RuleZeroStep ==
    (engine = "constructed" /\ _rulen = 0 /\ last.op = "evolve" /\ last.arg = 2)
        => /\ last.raised = "none"
           /\ Config(current_configuration) = [k \in 1.._length |-> 0]

\* C5: in every state reached by construction and evolve calls, failed calls
\* included, the history has 1 + (steps completed) entries, the current
\* configuration equals the last entry, and every entry has length L.
C5_HistoryConsistent ==
    engine = "constructed"
        => /\ Len(spacetime) = 1 + steps_done
           /\ Config(current_configuration) = Config(spacetime[Len(spacetime)])
           /\ \A t \in 1..Len(spacetime) : Len(Config(spacetime[t])) = _length

\* C5 witness: an evolve call over a three-cell configuration failed at its
\* last cell, after two cells of the new configuration had been computed.
C5_Witness ==
    /\ engine = "constructed"
    /\ last.op = "evolve"
    /\ last.raised = "KeyError"
    /\ Config(current_configuration) = <<0, 2, 2>>
    /\ Len(spacetime) = 1

\* C6: evolve(time_steps) raises ValueError for every negative and every
\* non-integer time_steps, and leaves the current configuration and the
\* spacetime history as the call found them (shown on engines whose rule
\* number is in range).
C6_BadTimeStepsRejected ==
    (engine = "constructed" /\ ValidRule(_rulen) /\ last.op = "evolve"
         /\ (last.arg < 0 \/ last.arg % 2 # 0))
        => /\ last.raised = "ValueError"
           /\ History = before.spacetime
           /\ Config(current_configuration) = before.current_configuration

\* C7: for a chain started at initial_a > 1 every recorded value is > 1, and
\* on an iteration whose candidate is <= 1 the chain keeps its previous value.
C7_SamplesAboveOne ==
    initial_a > 1
        => /\ \A k \in 1..Len(e_est) : e_est[k] > 1
           /\ (Len(e_est) >= 1 /\ a_new <= 1)
                  => e_est[Len(e_est)] =
                         (IF Len(e_est) = 1 THEN initial_a
                          ELSE e_est[Len(e_est) - 1])

\* C7 witness: a chain started above 1 proposed a candidate <= 1 after an
\* earlier iteration had moved it.
C7_Witness ==
    /\ initial_a > 1
    /\ Len(e_est) >= 2
    /\ e_est[1] # initial_a
    /\ a_new <= 1

\* C8: every completed evolution step is a synchronous update with circular
\* boundary: entry t of the history has the length of entry t - 1 and its
\* cell i is table[(c[(i - 1) mod L], c[i])] for c = entry t - 1.
C8_SynchronousStep ==
    engine = "constructed"
        => \A t \in 2..Len(spacetime) :
               LET c == Config(spacetime[t - 1])
                   new == Config(spacetime[t])
                   L == Len(c)
                   table == lookup_table(_rulen).value
               IN  /\ Len(new) = L
                   /\ \A i \in 0..(L - 1) :
                          new[i + 1] = table[<<c[((i - 1) % L) + 1], c[i + 1]>>]

\* C8 witness: two steps were completed over at least two cells, each
\* changing the configuration, under a rule whose in-place update differs.
C8_Witness ==
    /\ engine = "constructed"
    /\ Len(spacetime) >= 3
    /\ _length >= 2
    /\ Config(spacetime[2]) # Config(spacetime[1])
    /\ Config(spacetime[3]) # Config(spacetime[2])
    /\ cells_inplace(Config(spacetime[1]), _rulen, 0, _length, <<>>).value
           # Config(spacetime[2])

\* C9: for every rule number r in [0, 3^9 - 1] and every (left, self), the
\* table's output is the base-3 digit of r at position 3 * left + self.
C9_DigitOfRule ==
    (lt_result.raised # "pending" /\ ValidRule(lt_rule))
        => \A l \in 0..2, s \in 0..2 :
               /\ <<l, s>> \in DOMAIN lt_result.value
               /\ lt_result.value[<<l, s>>] = (lt_rule \div 3^(3 * l + s)) % 3

\* the engine's history and current configuration are those of one
\* evolve(requested) call on an engine built from the same inputs
SameAsSingleCall ==
    LET fresh == ThreeStateCA(_rulen, Config(initial)).self
        ref == evolve(fresh, 2 * requested).self
    IN  /\ [t \in 1..Len(ref.spacetime) |-> ref.heap[ref.spacetime[t]]] = History
        /\ ref.heap[ref.current_configuration] = Config(current_configuration)

\* s is an initial segment of t
IsPrefix(s, t) ==
    Len(s) <= Len(t) /\ \A k \in 1..Len(s) : s[k] = t[k]

\* C10: for a valid rule number, evolve calls with integer arguments a, b, ...
\* leave the history and current configuration that a single evolve(a + b + ...)
\* leaves, and an evolve call never changes or removes an earlier entry.
C10_EvolveComposes ==
    (engine = "constructed" /\ ValidRule(_rulen))
        => /\ clean => SameAsSingleCall
           /\ last.op = "evolve" => IsPrefix(before.spacetime, History)

\* C10 witness: two evolve calls of at least one step each were made, all
\* with integer arguments, and every requested step was completed.
C10_Witness ==
    /\ engine = "constructed"
    /\ ValidRule(_rulen)
    /\ clean
    /\ last.op = "evolve"
    /\ last.arg >= 2
    /\ requested > last.arg \div 2
    /\ Len(spacetime) = requested + 1
    /\ Config(spacetime[3]) # Config(spacetime[2])

=============================================================================
